---- MODULE Spec2Model ----
(***************************************************************************)
(* Model of the konnyaku translation service:                              *)
(*   src-tauri/src/translation.rs  TranslationService                      *)
(*   src-tauri/src/lib.rs          the tauri commands                      *)
(* Each process is one in-flight tauri command (an async task of the      *)
(* multi-threaded runtime).  An action is a stretch of code between two    *)
(* points at which another task can run or observe the shared state.       *)
(***************************************************************************)
EXTENDS Integers, Sequences, FiniteSets, TLC

VARIABLES
    pc,         \* per task: position in the code
    cmd,        \* per task: the tauri command being served
    lock,       \* owner of the tokio Mutex around ModelState, 0 = free
    is_loaded,  \* ModelState.is_loaded
    model,      \* ModelState.model : Option<LlamaModel> (<<>> = None)
    file,       \* the cache file at model_path
    off,        \* per task: write offset of its open file handle
    call,       \* per task: what the current command has done so far
    resp,       \* per task: what the command returned to the host
    sess,       \* per task: locals of TranslationService::translate
    loads       \* number of native loads that were committed to ModelState

vars == <<pc, cmd, lock, is_loaded, model, file, off, call, resp, sess,
          loads>>

\* ------------------------------------------------------------------ bounds
\* number of chunks of the model artifact as served by the network
NChunks == 2
\* largest number of new tokens a modelled request can ask for
MaxGen == 2

\* ------------------------------------------------------- program constants
MAX_TOKENS == 512
CONTEXT_SIZE == 4096
\* variant: a batch as large as the context
BATCH_CAPACITY_Ctx == CONTEXT_SIZE

BATCH_CAPACITY == 512

Procs == {1, 2}
Free == 0

\* Option<T> is a sequence of length at most one
None == <<>>
Some(x) == <<x>>

\* ------------------------------------------------------------ the cache file
NoFile == [exists |-> FALSE, data |-> <<>>]
EmptyFile == [exists |-> TRUE, data |-> <<>>]
Artifact == [i \in 1..NChunks |-> "d"]

\* model_path.exists()
Exists(f) == f.exists

\* the file holds the whole artifact
Complete(f) == f.exists /\ f.data = Artifact

\* File::create: creates the file or truncates it to length 0
Create(f) == EmptyFile

\* write_all of chunk number k+1 through a handle whose offset is k
WriteAt(f, k) ==
    [exists |-> TRUE,
     data |-> [i \in 1..(IF Len(f.data) > k + 1 THEN Len(f.data) ELSE k + 1) |->
                 IF i = k + 1 THEN "d"
                 ELSE IF i <= Len(f.data) THEN f.data[i]
                 ELSE "hole"]]

\* tokio::fs::copy of the hub's local artifact over the cache file
CopyOver(f) == [exists |-> TRUE, data |-> Artifact]

\* ------------------------------------------------------- per-call bookkeeping
NoCall == [direct |-> 0, directFailed |-> FALSE, created |-> FALSE,
           hub |-> 0, hubFailed |-> FALSE, instructions |-> FALSE,
           hit |-> FALSE, hitAtStart |-> FALSE, loadedAtStart |-> FALSE,
           net |-> FALSE, writes |-> FALSE, locks |-> FALSE,
           nativeLoads |-> 0, tokenize |-> FALSE]

NoResp == [kind |-> "none", success |-> FALSE, translation |-> None,
           error |-> None]

NoSess == [request |-> "none", direction |-> "none", text |-> 0, ctx |-> FALSE, ntok |-> 0,
           batch |-> [n_tokens |-> 0, logits |-> -1, first |-> 0, last |-> -1],
           n_cur |-> 0, decodes |-> 0,
           iter |-> 0, max_new |-> 0, gen |-> <<>>, pending |-> <<>>,
           translation |-> <<>>, exit |-> "none"]

\* anyhow's Display of an error prints the outermost context only
Display(e) == Head(e)


\* ------------------------------------------------------- request inputs
\* direction strings a host can send (lib.rs TranslateRequest.direction)
Directions == {"en-ja", "ja-en", "fr-en"}

\* a text is identified by the number of tokens that str_to_token makes of
\* its composed prompt (BOS included); the lengths lie around MAX_TOKENS
Texts == (MAX_TOKENS - MaxGen)..(MAX_TOKENS + 1)

\* variant: the match falls through to a default direction
ParseDirection_Default(d) ==
    IF d = "ja-en" THEN Some("JapaneseToEnglish") ELSE Some("EnglishToJapanese")

\* lib.rs lines 35-45: the match on request.direction
ParseDirection(d) ==
    IF d = "en-ja" THEN Some("EnglishToJapanese")
    ELSE IF d = "ja-en" THEN Some("JapaneseToEnglish")
    ELSE None

\* lines 265-268: the system prompt of a direction
SystemPrompt(direction) ==
    IF direction = "EnglishToJapanese" THEN "Translate to Japanese."
    ELSE "Translate to English."

\* line 272: format!("{}\n{}", system_prompt, text)
FullPrompt(direction, text) == <<SystemPrompt(direction), "\n", text>>

\* lines 287-289: tokens_list.len() of model.str_to_token(full_prompt)
TokenCount(prompt) == prompt[3]

\* ------------------------------------------------------------ vocabulary
EOG == 0
Vocab == 0..4

\* model.is_eog_token
IsEog(t) == t = EOG

\* model.token_to_bytes: "a", the first two bytes of U+3053, its last byte,
\* a space
TokenBytes(t) ==
    CASE t = 1 -> <<97>>
      [] t = 2 -> <<227, 129>>
      [] t = 3 -> <<147>>
      [] t = 4 -> <<32>>
      [] OTHER -> <<>>

\* ---------------------------------------------- encoding_rs UTF-8 decoder
\* a character is the sequence of its bytes
Replacement == <<239, 191, 189>>

\* number of continuation bytes a lead byte asks for, -1 for a byte that
\* cannot start a character
Need(b) ==
    IF b < 128 THEN 0
    ELSE IF b >= 194 /\ b <= 223 THEN 1
    ELSE IF b >= 224 /\ b <= 239 THEN 2
    ELSE IF b >= 240 /\ b <= 244 THEN 3
    ELSE -1

IsContinuation(b) == b >= 128 /\ b <= 191

\* one byte through the decoder: d = [pending, out]
Start(d, b) ==
    IF Need(b) = 0 THEN [pending |-> <<>>, out |-> Append(d.out, <<b>>)]
    ELSE IF Need(b) > 0 THEN [pending |-> <<b>>, out |-> d.out]
    ELSE [pending |-> <<>>, out |-> Append(d.out, Replacement)]

FeedByte(d, b) ==
    IF d.pending = <<>> THEN Start(d, b)
    ELSE IF IsContinuation(b)
    THEN LET q == Append(d.pending, b) IN
         IF Len(q) = Need(q[1]) + 1
         THEN [pending |-> <<>>, out |-> Append(d.out, q)]
         ELSE [pending |-> q, out |-> d.out]
    ELSE Start([pending |-> <<>>, out |-> Append(d.out, Replacement)], b)

RECURSIVE FeedBytes(_, _)
FeedBytes(d, bytes) ==
    IF bytes = <<>> THEN d
    ELSE FeedBytes(FeedByte(d, Head(bytes)), Tail(bytes))

\* decoder.decode_to_string(bytes, out, false): the characters completed by
\* bytes, and the bytes still pending afterwards
Decode(pending, bytes) == FeedBytes([pending |-> pending, out |-> <<>>], bytes)

\* char::is_whitespace on the characters of the vocabulary
IsWhitespace(c) == c = <<32>> \/ c = <<10>>

RECURSIVE TrimStart(_)
TrimStart(s) ==
    IF s # <<>> /\ IsWhitespace(Head(s)) THEN TrimStart(Tail(s)) ELSE s

RECURSIVE TrimEnd(_)
TrimEnd(s) ==
    IF s # <<>> /\ IsWhitespace(s[Len(s)])
    THEN TrimEnd(SubSeq(s, 1, Len(s) - 1)) ELSE s

\* str::trim
Trim(s) == TrimEnd(TrimStart(s))

\* --------------------------------------------------------------- sampling
\* the logits the loaded weights give for the next token of a context
Logits(weights, direction, ntok, gen) ==
    LET w == Cardinality({i \in DOMAIN weights : weights[i] = "d"})
        d == IF direction = "EnglishToJapanese" THEN 1 ELSE 5
    IN [t \in Vocab |-> ((ntok + d + w + Len(gen)) * (t + 2) + t * t) % 7]

\* LlamaSampler::greedy: the first token of the highest logit
Greedy(l) ==
    CHOOSE t \in Vocab : \A u \in Vocab : l[t] > l[u] \/ (l[t] = l[u] /\ t <= u)

\* the outcome of a native call that brings the process down
Abort == -1

\* llama_get_logits_ith: the batch decoded last has logits at index idx
HasLogits(batch, idx) == idx >= 0 /\ idx < batch.n_tokens /\ idx = batch.logits

\* sampler.sample(&ctx, idx): with logits at idx the greedy token; without,
\* the native call reads what is not there: it aborts the process or
\* returns any token
Sample(weights, s, idx) ==
    IF HasLogits(s.batch, idx)
    THEN {Greedy(Logits(weights, s.direction, s.ntok, s.gen))}
    ELSE Vocab \cup {Abort}

\* ------------------------------------------------------------------- Init
Init ==
    /\ pc = [p \in Procs |-> "idle"]
    /\ cmd = [p \in Procs |-> "none"]
    /\ lock = Free
    /\ is_loaded = FALSE
    /\ model = None
    /\ file = NoFile
    /\ off = [p \in Procs |-> 0]
    /\ call = [p \in Procs |-> NoCall]
    /\ resp = [p \in Procs |-> NoResp]
    /\ sess = [p \in Procs |-> NoSess]
    /\ loads = 0

\* ------------------------------------------------- lib.rs: command results
\* Ok(value) of a command / Err(message) of a command (the host sees a raise)
Value(b) == [kind |-> "value", success |-> b, translation |-> None,
             error |-> None]
Raise(msg) == [kind |-> "raise", success |-> FALSE, translation |-> None,
               error |-> Some(msg)]

\* variant: the error of the service is passed on as the command's Err
TranslateResponse_Raise(ok, t, e) ==
    IF ok
    THEN [kind |-> "value", success |-> TRUE, translation |-> Some(t),
          error |-> None]
    ELSE Raise(<<"Translation failed: ", Display(e)>>)

\* lib.rs translate, the match on state.0.translate(...)
TranslateResponse(ok, t, e) ==
    IF ok
    THEN [kind |-> "value", success |-> TRUE, translation |-> Some(t),
          error |-> None]
    ELSE [kind |-> "value", success |-> FALSE, translation |-> None,
          error |-> Some(<<"Translation failed: ", Display(e)>>)]

\* lib.rs ensure_model_downloaded
DownloadResponse(ok, e) ==
    IF ok THEN Value(TRUE)
    ELSE Raise(<<"Failed to download model: ", Display(e)>>)

\* lib.rs initialize_model
InitializeResponse(ok, e) ==
    IF ok THEN Value(TRUE)
    ELSE Raise(<<"Failed to initialize model: ", Display(e)>>)

\* where a task continues when TranslationService::translate returns
AfterTranslate(ok, t, e) ==
    [pc |-> "done", resp |-> TranslateResponse(ok, t, e)]

\* where a task continues when ensure_model_loaded returns: its caller is
\* initialize_model or TranslationService::translate (the ? at line 258)
AfterEml(c, ok, e) ==
    IF c = "init" THEN [pc |-> "done", resp |-> InitializeResponse(ok, e)]
    ELSE IF ok THEN [pc |-> "tr_lock", resp |-> NoResp]
    ELSE AfterTranslate(FALSE, <<>>, e)

\* where a task continues when ensure_model_downloaded returns: its caller
\* is the command or ensure_model_loaded (the ? at line 227)
AfterEmd(c, ok, e) ==
    IF c = "download" THEN [pc |-> "done", resp |-> DownloadResponse(ok, e)]
    ELSE IF ok THEN [pc |-> "eml_load", resp |-> NoResp]
    ELSE AfterEml(c, FALSE, e)

\* the bookkeeping of a translate call once ensure_model_loaded has returned
\* Ok to it: the download and the load are behind it
PastLoad == [NoCall EXCEPT !.locks = TRUE]

\* continue at r with bookkeeping c
Goto(p, r, c) ==
    /\ pc' = [pc EXCEPT ![p] = r.pc]
    /\ resp' = [resp EXCEPT ![p] = r.resp]
    /\ call' = [call EXCEPT ![p] = IF r.pc = "tr_lock" THEN PastLoad ELSE c]

NoErr == <<>>

\* ------------------------------------------------------- command entry
\* lib.rs ensure_model_downloaded command
StartDownload(p) ==
    /\ pc[p] = "idle"
    /\ pc' = [pc EXCEPT ![p] = "emd_check"]
    /\ cmd' = [cmd EXCEPT ![p] = "download"]
    /\ call' = [call EXCEPT ![p] = [NoCall EXCEPT !.hitAtStart = Exists(file)]]
    /\ UNCHANGED <<lock, is_loaded, model, file, off, resp, sess, loads>>

\* lib.rs initialize_model command
StartInit(p) ==
    /\ pc[p] = "idle"
    /\ pc' = [pc EXCEPT ![p] = "eml_check"]
    /\ cmd' = [cmd EXCEPT ![p] = "init"]
    /\ call' = [call EXCEPT ![p] = [NoCall EXCEPT !.loadedAtStart = is_loaded]]
    /\ UNCHANGED <<lock, is_loaded, model, file, off, resp, sess, loads>>

\* lib.rs get_model_status -> is_model_loaded: lock, read, unlock
GetModelStatus(p) ==
    /\ pc[p] = "idle"
    /\ lock = Free
    /\ pc' = [pc EXCEPT ![p] = "done"]
    /\ cmd' = [cmd EXCEPT ![p] = "status"]
    /\ call' = [call EXCEPT ![p] = [NoCall EXCEPT !.locks = TRUE]]
    /\ resp' = [resp EXCEPT ![p] = Value(is_loaded)]
    /\ UNCHANGED <<lock, is_loaded, model, file, off, sess, loads>>

\* the command's result has been delivered to the host
Return(p) ==
    /\ pc[p] = "done"
    /\ pc' = [pc EXCEPT ![p] = "idle"]
    /\ cmd' = [cmd EXCEPT ![p] = "none"]
    /\ call' = [call EXCEPT ![p] = NoCall]
    /\ resp' = [resp EXCEPT ![p] = NoResp]
    /\ sess' = [sess EXCEPT ![p] = NoSess]
    /\ off' = [off EXCEPT ![p] = 0]
    /\ UNCHANGED <<lock, is_loaded, model, file, loads>>

\* ------------------------------------------- ensure_model_downloaded
\* variant: the existence check is missing
EmdCheck_NoTest(p) ==
    /\ pc[p] = "emd_check"
    /\ pc' = [pc EXCEPT ![p] = "direct_send"]
    /\ UNCHANGED <<cmd, lock, is_loaded, model, file, off, call, resp, sess,
                   loads>>

\* lines 79-92: the existence check, then create_dir_all
EmdCheck(p) ==
    /\ pc[p] = "emd_check"
    /\ IF Exists(file)
       THEN Goto(p, AfterEmd(cmd[p], TRUE, NoErr),
                 [call[p] EXCEPT !.hit = TRUE])
       ELSE \E dirOk \in BOOLEAN :
              IF dirOk
              THEN /\ pc' = [pc EXCEPT ![p] = "direct_send"]
                   /\ UNCHANGED <<call, resp>>
              ELSE Goto(p, AfterEmd(cmd[p], FALSE,
                            <<"Failed to create model directory", "io">>),
                        call[p])
    /\ UNCHANGED <<cmd, lock, is_loaded, model, file, off, sess, loads>>

\* variant: a failed direct download is tried again
DirectFailed_Retry(p, c) ==
    /\ call' = [call EXCEPT ![p] = [c EXCEPT !.directFailed = TRUE]]
    /\ pc' = [pc EXCEPT ![p] = "direct_send"]

\* a failure of download_file_direct: lines 107-110 fall through to the hub
DirectFailed(p, c) ==
    /\ call' = [call EXCEPT ![p] = [c EXCEPT !.directFailed = TRUE]]
    /\ pc' = [pc EXCEPT ![p] = "hub_new"]

\* download_file_direct lines 161-173: build the client, send, check status
DirectSend(p) ==
    /\ pc[p] = "direct_send"
    /\ \E outcome \in {"ok", "build", "transport", "status", "timeout"} :
         LET c == [call[p] EXCEPT !.direct = @ + 1,
                     !.net = (outcome # "build")]
         IN IF outcome = "ok"
            THEN /\ call' = [call EXCEPT ![p] = c]
                 /\ pc' = [pc EXCEPT ![p] = "direct_create"]
            ELSE DirectFailed(p, c)
    /\ UNCHANGED <<cmd, lock, is_loaded, model, file, off, resp, sess, loads>>

\* download_file_direct lines 181-183: File::create
DirectCreate(p) ==
    /\ pc[p] = "direct_create"
    /\ \E ok \in BOOLEAN :
         IF ok
         THEN /\ file' = Create(file)
              /\ off' = [off EXCEPT ![p] = 0]
              /\ call' = [call EXCEPT ![p].created = TRUE,
                                      ![p].writes = TRUE]
              /\ pc' = [pc EXCEPT ![p] = "direct_chunk"]
         ELSE /\ DirectFailed(p, call[p])
              /\ UNCHANGED <<file, off>>
    /\ UNCHANGED <<cmd, lock, is_loaded, model, resp, sess, loads>>

\* download_file_direct lines 189-209: one round of the chunk loop
DirectChunk(p) ==
    /\ pc[p] = "direct_chunk"
    /\ off[p] < NChunks
    /\ \E outcome \in {"ok", "chunk_error", "write_error"} :
         LET c == [call[p] EXCEPT !.net = TRUE] IN
         IF outcome = "ok"
         THEN /\ file' = WriteAt(file, off[p])
              /\ off' = [off EXCEPT ![p] = @ + 1]
              /\ call' = [call EXCEPT ![p] = [c EXCEPT !.writes = TRUE]]
              /\ UNCHANGED pc
         ELSE /\ DirectFailed(p, c)
              /\ UNCHANGED <<file, off>>
    /\ UNCHANGED <<cmd, lock, is_loaded, model, resp, sess, loads>>

\* download_file_direct lines 189, 211-214: end of stream, flush, Ok;
\* ensure_model_downloaded lines 103-106 then return Ok
DirectFinish(p) ==
    /\ pc[p] = "direct_chunk"
    /\ off[p] = NChunks
    /\ \E flushed \in BOOLEAN :
         IF flushed
         THEN Goto(p, AfterEmd(cmd[p], TRUE, NoErr), call[p])
         ELSE /\ DirectFailed(p, call[p])
              /\ UNCHANGED resp
    /\ UNCHANGED <<cmd, lock, is_loaded, model, file, off, sess, loads>>

\* lines 115-117: Api::new()?  (an error returns at once)
HubNew(p) ==
    /\ pc[p] = "hub_new"
    /\ \E ok \in BOOLEAN :
         IF ok
         THEN /\ call' = [call EXCEPT ![p].hub = @ + 1]
              /\ pc' = [pc EXCEPT ![p] = "hub_get"]
              /\ UNCHANGED resp
         ELSE Goto(p, AfterEmd(cmd[p], FALSE,
                       <<"Failed to create HuggingFace API", "api">>),
                   [call[p] EXCEPT !.hub = @ + 1, !.hubFailed = TRUE])
    /\ UNCHANGED <<cmd, lock, is_loaded, model, file, off, sess, loads>>

\* lines 139-153: both failure arms of the timeout match print the manual
\* download instructions and return the error
HubFailed(p, c, e) ==
    Goto(p, AfterEmd(cmd[p], FALSE, e),
         [c EXCEPT !.hubFailed = TRUE, !.instructions = TRUE])

TimedOut == <<"Model download timed out after 5 minutes">>

\* lines 121-122: repo.get(MODEL_FILE) under the 300 s timeout
HubGet(p) ==
    /\ pc[p] = "hub_get"
    /\ \E outcome \in {"ok", "error", "timeout"} :
         LET c == [call[p] EXCEPT !.net = TRUE] IN
         CASE outcome = "ok" ->
                /\ call' = [call EXCEPT ![p] = c]
                /\ pc' = [pc EXCEPT ![p] = "hub_copy"]
                /\ UNCHANGED resp
           [] outcome = "error" ->
                HubFailed(p, c, <<"Failed to download model from HuggingFace",
                                  "hub">>)
           [] outcome = "timeout" -> HubFailed(p, c, TimedOut)
    /\ UNCHANGED <<cmd, lock, is_loaded, model, file, off, sess, loads>>

\* lines 127-129: tokio::fs::copy opens (truncates) the destination
HubCopy(p) ==
    /\ pc[p] = "hub_copy"
    /\ \E outcome \in {"ok", "error", "timeout"} :
         CASE outcome = "ok" ->
                /\ file' = Create(file)
                /\ call' = [call EXCEPT ![p].writes = TRUE]
                /\ pc' = [pc EXCEPT ![p] = "hub_copy_write"]
                /\ UNCHANGED resp
           [] outcome = "error" ->
                /\ HubFailed(p, call[p], <<"Failed to copy model to cache",
                                           "io">>)
                /\ UNCHANGED file
           [] outcome = "timeout" ->
                /\ HubFailed(p, call[p], TimedOut)
                /\ UNCHANGED file
    /\ UNCHANGED <<cmd, lock, is_loaded, model, off, sess, loads>>

\* lines 127-138: the copy writes the artifact; Ok(Ok(())) returns Ok
HubCopyWrite(p) ==
    /\ pc[p] = "hub_copy_write"
    /\ \E outcome \in {"ok", "error", "timeout"} :
         CASE outcome = "ok" ->
                /\ file' = CopyOver(file)
                /\ Goto(p, AfterEmd(cmd[p], TRUE, NoErr),
                        [call[p] EXCEPT !.writes = TRUE])
           [] outcome = "error" ->
                /\ HubFailed(p, call[p], <<"Failed to copy model to cache",
                                           "io">>)
                /\ UNCHANGED file
           [] outcome = "timeout" ->
                /\ HubFailed(p, call[p], TimedOut)
                /\ UNCHANGED file
    /\ UNCHANGED <<cmd, lock, is_loaded, model, off, sess, loads>>

\* ------------------------------------------------- ensure_model_loaded
\* variant: the is_loaded test is missing
EmlCheck_NoTest(p) ==
    /\ pc[p] = "eml_check"
    /\ lock = Free
    /\ call' = [call EXCEPT ![p].locks = TRUE,
                            ![p].hitAtStart = Exists(file)]
    /\ pc' = [pc EXCEPT ![p] = "emd_check"]
    /\ UNCHANGED <<cmd, lock, is_loaded, model, file, off, resp, sess, loads>>

\* variant: the guard is not dropped before the download
EmlCheck_KeepLock(p) ==
    /\ pc[p] = "eml_check"
    /\ lock = Free
    /\ IF is_loaded
       THEN /\ Goto(p, AfterEml(cmd[p], TRUE, NoErr),
                    [call[p] EXCEPT !.locks = TRUE])
            /\ UNCHANGED lock
       ELSE /\ call' = [call EXCEPT ![p].locks = TRUE,
                                    ![p].hitAtStart = Exists(file)]
            /\ pc' = [pc EXCEPT ![p] = "emd_check"]
            /\ lock' = p
            /\ UNCHANGED resp
    /\ UNCHANGED <<cmd, is_loaded, model, file, off, sess, loads>>

\* lines 219-227: lock, test is_loaded, return or drop the lock and download
EmlCheck(p) ==
    /\ pc[p] = "eml_check"
    /\ lock = Free
    /\ IF is_loaded
       THEN Goto(p, AfterEml(cmd[p], TRUE, NoErr),
                 [call[p] EXCEPT !.locks = TRUE])
       ELSE /\ call' = [call EXCEPT ![p].locks = TRUE,
                                    ![p].hitAtStart = Exists(file)]
            /\ pc' = [pc EXCEPT ![p] = "emd_check"]
            /\ UNCHANGED resp
    /\ UNCHANGED <<cmd, lock, is_loaded, model, file, off, sess, loads>>

\* variant: line 228 does not wait for the lock
EmlLock_NoWait(p) ==
    /\ pc[p] = "eml_load"
    /\ lock' = p
    /\ call' = [call EXCEPT ![p].locks = TRUE]
    /\ pc' = [pc EXCEPT ![p] = "eml_loading"]
    /\ UNCHANGED <<cmd, is_loaded, model, file, off, resp, sess, loads>>

\* line 228: re-acquire the lock
EmlLock(p) ==
    /\ pc[p] = "eml_load"
    /\ lock = Free
    /\ lock' = p
    /\ call' = [call EXCEPT ![p].locks = TRUE]
    /\ pc' = [pc EXCEPT ![p] = "eml_loading"]
    /\ UNCHANGED <<cmd, is_loaded, model, file, off, resp, sess, loads>>

\* what LlamaModel::load_from_file can make of the cache file: a file
\* shorter than the artifact does not parse
Loadable(f) == f.exists /\ Len(f.data) = NChunks

\* variant: a failed load clears the engine state
EmlLoad_Reset(p) ==
    /\ pc[p] = "eml_loading"
    /\ lock = p
    /\ \E ok \in BOOLEAN :
         IF ok
         THEN /\ Loadable(file)
              /\ model' = Some([weights |-> file.data])
              /\ is_loaded' = TRUE
              /\ loads' = loads + 1
              /\ Goto(p, AfterEml(cmd[p], TRUE, NoErr),
                      [call[p] EXCEPT !.nativeLoads = @ + 1])
         ELSE /\ Goto(p, AfterEml(cmd[p], FALSE,
                          <<"Failed to load model", "llama">>),
                      [call[p] EXCEPT !.nativeLoads = @ + 1])
              /\ model' = None
              /\ is_loaded' = FALSE
              /\ UNCHANGED loads
    /\ lock' = Free
    /\ UNCHANGED <<cmd, file, off, sess>>

\* variant: is_loaded is set before the load is known to have succeeded
EmlLoad_EarlyCommit(p) ==
    /\ pc[p] = "eml_loading"
    /\ lock = p
    /\ \E ok \in BOOLEAN :
         IF ok
         THEN /\ Loadable(file)
              /\ model' = Some([weights |-> file.data])
              /\ loads' = loads + 1
              /\ Goto(p, AfterEml(cmd[p], TRUE, NoErr),
                      [call[p] EXCEPT !.nativeLoads = @ + 1])
         ELSE /\ Goto(p, AfterEml(cmd[p], FALSE,
                          <<"Failed to load model", "llama">>),
                      [call[p] EXCEPT !.nativeLoads = @ + 1])
              /\ UNCHANGED <<model, loads>>
    /\ is_loaded' = TRUE
    /\ lock' = Free
    /\ UNCHANGED <<cmd, file, off, sess>>

\* lines 237-249: load_from_file, then commit model and is_loaded
EmlLoad(p) ==
    /\ pc[p] = "eml_loading"
    /\ lock = p
    /\ \E ok \in BOOLEAN :
         IF ok
         THEN /\ Loadable(file)
              /\ model' = Some([weights |-> file.data])
              /\ is_loaded' = TRUE
              /\ loads' = loads + 1
              /\ Goto(p, AfterEml(cmd[p], TRUE, NoErr),
                      [call[p] EXCEPT !.nativeLoads = @ + 1])
         ELSE /\ Goto(p, AfterEml(cmd[p], FALSE,
                          <<"Failed to load model", "llama">>),
                      [call[p] EXCEPT !.nativeLoads = @ + 1])
              /\ UNCHANGED <<model, is_loaded, loads>>
    /\ lock' = Free
    /\ UNCHANGED <<cmd, file, off, sess>>

\* ------------------------------------------------------ lib.rs translate
\* lines 30-48: parse the direction; an unknown one is answered at once,
\* a known one calls TranslationService::translate, which starts with
\* ensure_model_loaded (line 258).  The request's text is first looked at
\* when the prompt is composed, and is drawn there.
StartTranslate(p) ==
    /\ pc[p] = "idle"
    /\ \E d \in Directions :
         LET direction == ParseDirection(d) IN
         IF direction = None
         THEN /\ pc' = [pc EXCEPT ![p] = "done"]
              /\ resp' = [resp EXCEPT ![p] =
                    [kind |-> "value", success |-> FALSE,
                     translation |-> None,
                     error |-> Some(<<"Invalid translation direction: ", d>>)]]
              /\ call' = [call EXCEPT ![p] = NoCall]
              /\ sess' = [sess EXCEPT ![p] = [NoSess EXCEPT !.request = d]]
         ELSE /\ pc' = [pc EXCEPT ![p] = "eml_check"]
              /\ call' = [call EXCEPT ![p] =
                            [NoCall EXCEPT !.loadedAtStart = is_loaded]]
              /\ sess' = [sess EXCEPT ![p] =
                            [NoSess EXCEPT !.request = d,
                                           !.direction = direction[1]]]
              /\ UNCHANGED resp
    /\ cmd' = [cmd EXCEPT ![p] = "translate"]
    /\ UNCHANGED <<lock, is_loaded, model, file, off, loads>>

\* --------------------------------------- TranslationService::translate
\* the locals of translate are dropped when it returns; what stays is how
\* the session went
Ended(s, how) ==
    [NoSess EXCEPT !.request = s.request, !.direction = s.direction,
                   !.text = s.text, !.ntok = s.ntok, !.iter = s.iter,
                   !.decodes = s.decodes,
                   !.max_new = s.max_new, !.exit = how]

\* variant: an error return that keeps the guard and the context
TrFail_Leak(p, s, c, e) ==
    /\ sess' = [sess EXCEPT ![p] = [s EXCEPT !.exit = "error"]]
    /\ lock' = p
    /\ Goto(p, AfterTranslate(FALSE, <<>>, e), c)

\* an error return of translate: the guard and the context are dropped
TrFail(p, s, c, e) ==
    /\ sess' = [sess EXCEPT ![p] = Ended(s, "error")]
    /\ lock' = Free
    /\ Goto(p, AfterTranslate(FALSE, <<>>, e), c)

\* lines 292-299: the prompt batch: token i at position i, logits asked
\* for the last one only
PromptBatch(ntok) ==
    [n_tokens |-> ntok, logits |-> ntok - 1, first |-> 0, last |-> ntok - 1]

\* lines 340-341: the batch is cleared and the sampled token is added at
\* position n_cur, with logits
FeedBatch_Skip(n_cur) ==
    [n_tokens |-> 1, logits |-> 0, first |-> n_cur + 1, last |-> n_cur + 1]

FeedBatch(n_cur) ==
    [n_tokens |-> 1, logits |-> 0, first |-> n_cur, last |-> n_cur]

\* lines 260-289: lock, model.as_ref(), new_context, str_to_token
TrBegin(p) ==
    /\ pc[p] = "tr_lock"
    /\ lock = Free
    /\ IF model = None
       THEN TrFail(p, sess[p], [call[p] EXCEPT !.locks = TRUE],
                   <<"Model not loaded">>)
       ELSE \E text \in Texts, outcome \in {"ok", "context", "tokenize"} :
              CASE outcome = "context" ->
                     TrFail(p, sess[p], [call[p] EXCEPT !.locks = TRUE],
                            <<"Failed to create context", "llama">>)
                [] outcome = "tokenize" ->
                     TrFail(p, [sess[p] EXCEPT !.text = text],
                            [call[p] EXCEPT !.locks = TRUE, !.tokenize = TRUE],
                            <<"Failed to tokenize prompt", "llama">>)
                [] outcome = "ok" ->
                     /\ sess' = [sess EXCEPT ![p].ctx = TRUE,
                            ![p].text = text,
                            ![p].ntok = TokenCount(FullPrompt(sess[p].direction,
                                                              text))]
                     /\ call' = [call EXCEPT ![p].locks = TRUE,
                                             ![p].tokenize = TRUE]
                     /\ lock' = p
                     /\ pc' = [pc EXCEPT ![p] = "tr_prefill"]
                     /\ UNCHANGED resp
    /\ UNCHANGED <<cmd, is_loaded, model, file, off, loads>>

\* lines 292-315: fill the batch of capacity 512 (batch.add fails on the
\* token that does not fit), decode the prompt, set up the loop
TrPrefill(p) ==
    /\ pc[p] = "tr_prefill"
    /\ lock = p
    /\ LET s == sess[p] IN
       IF s.ntok > BATCH_CAPACITY
       THEN TrFail(p, s, call[p], <<"Insufficient Space">>)
       ELSE \E ok \in BOOLEAN :
              LET b == PromptBatch(s.ntok) IN
              IF ok
              THEN /\ sess' = [sess EXCEPT ![p] =
                         [s EXCEPT !.batch = b, !.n_cur = b.n_tokens,
                                   !.decodes = 1,
                                   !.max_new = MAX_TOKENS - s.ntok]]
                   /\ pc' = [pc EXCEPT ![p] = "tr_gen"]
                   /\ UNCHANGED <<lock, resp, call>>
              ELSE TrFail(p, [s EXCEPT !.decodes = 1], call[p],
                          <<"Failed to decode prompt", "llama">>)
    /\ UNCHANGED <<cmd, is_loaded, model, file, off, loads>>

\* lines 317-348: one round of the generation loop
TrGen(p) ==
    /\ pc[p] = "tr_gen"
    /\ lock = p
    /\ sess[p].exit = "none"
    /\ sess[p].iter < sess[p].max_new
    /\ LET s == [sess[p] EXCEPT !.iter = @ + 1] IN
       \E token \in Sample(model[1].weights, s, s.n_cur - 1) :
         IF token = Abort
         THEN /\ pc' = [q \in Procs |-> "aborted"]
              /\ sess' = [sess EXCEPT ![p] = [s EXCEPT !.exit = "abort"]]
              /\ UNCHANGED <<lock, resp, call>>
         ELSE IF IsEog(token)
         THEN /\ sess' = [sess EXCEPT ![p] = [s EXCEPT !.exit = "eog"]]
              /\ UNCHANGED <<pc, lock, resp, call>>
         ELSE \E outcome \in {"ok", "bytes", "decode"} :
                LET d == Decode(s.pending, TokenBytes(token))
                    t == [s EXCEPT !.pending = d.pending,
                                   !.translation = @ \o d.out,
                                   !.batch = FeedBatch(s.n_cur),
                                   !.decodes = @ + 1,
                                   !.gen = Append(@, token),
                                   !.n_cur = @ + 1]
                IN CASE outcome = "bytes" ->
                          TrFail(p, s, call[p],
                                 <<"Failed to convert token to bytes", "llama">>)
                     [] outcome = "decode" ->
                          TrFail(p, t, call[p],
                                 <<"Failed to decode token", "llama">>)
                     [] outcome = "ok" ->
                          /\ sess' = [sess EXCEPT ![p] = t]
                          /\ UNCHANGED <<pc, lock, resp, call>>
    /\ UNCHANGED <<cmd, is_loaded, model, file, off, loads>>

\* lines 317, 350-356: the loop is over; trim and return the translation
TrFinish(p) ==
    /\ pc[p] = "tr_gen"
    /\ lock = p
    /\ sess[p].exit = "eog" \/ sess[p].iter >= sess[p].max_new
    /\ sess' = [sess EXCEPT ![p] =
                   Ended(@, IF @.exit = "eog" THEN "eog" ELSE "exhausted")]
    /\ lock' = Free
    /\ Goto(p, AfterTranslate(TRUE, Trim(sess[p].translation), NoErr), call[p])
    /\ UNCHANGED <<cmd, is_loaded, model, file, off, loads>>

Next ==
    \E p \in Procs :
        \/ StartTranslate(p)
        \/ TrBegin(p)
        \/ TrPrefill(p)
        \/ TrGen(p)
        \/ TrFinish(p)
        \/ StartDownload(p)
        \/ StartInit(p)
        \/ GetModelStatus(p)
        \/ Return(p)
        \/ EmdCheck(p)
        \/ DirectSend(p)
        \/ DirectCreate(p)
        \/ DirectChunk(p)
        \/ DirectFinish(p)
        \/ HubNew(p)
        \/ HubGet(p)
        \/ HubCopy(p)
        \/ HubCopyWrite(p)
        \/ EmlCheck(p)
        \/ EmlLock(p)
        \/ EmlLoad(p)

Spec == Init /\ [][Next]_vars

\* ======================================================= properties
\* task p takes a step of its own (the death of the process is not one)
Stepped(p) == pc'[p] # pc[p] /\ pc'[p] # "aborted"

\* positions inside ensure_model_downloaded's two download tiers
DownloadPcs == {"direct_send", "direct_create", "direct_chunk", "hub_new",
                "hub_get", "hub_copy", "hub_copy_write"}

\* positions inside ensure_model_loaded, the nested download included
EmlPcs == {"eml_check", "emd_check", "eml_load", "eml_loading"} \cup DownloadPcs

\* C1: under every interleaving of concurrent ensure_model_loaded callers
\* the engine goes from unloaded to loaded exactly once: no caller is in the
\* native load while is_loaded is already true, and at most one native load
\* is ever committed.
C1_LoadedOnce ==
    /\ loads <= 1
    /\ \A p \in Procs : pc[p] = "eml_loading" => ~is_loaded

\* the cache file is half-written and no download is in progress: it was
\* left behind by a failed attempt
LeftBehind ==
    /\ Exists(file)
    /\ ~Complete(file)
    /\ \A q \in Procs : pc[q] \notin DownloadPcs

\* C2: a half-written cache file left behind by a failed download attempt
\* is never treated as already downloaded: ensure_model_downloaded does not
\* return success on the existence check while such a file is in place.
C2_LeftBehindNotCached ==
    [][\A p \in Procs :
         (pc[p] = "emd_check" /\ call'[p].hit /\ Stepped(p)) => ~LeftBehind]_vars

\* C3: ensure_model_loaded is idempotent: a call that starts when is_loaded
\* is already true returns success at its first step, without entering the
\* downloader, without a native load and without changing the engine state.
C3_LoadIdempotent ==
    [][\A p \in Procs :
         (pc[p] = "eml_check" /\ call[p].loadedAtStart /\ Stepped(p)) =>
            /\ pc'[p] \in {"done", "tr_lock"}
            /\ pc'[p] = "done" => resp'[p] = Value(TRUE)
            /\ call'[p].nativeLoads = 0
            /\ call'[p].direct = 0 /\ call'[p].hub = 0 /\ ~call'[p].net
            /\ UNCHANGED <<is_loaded, model, loads, file, lock>>]_vars

C3_Witness ==
    \E p \in Procs :
        /\ pc[p] = "done" /\ cmd[p] = "init"
        /\ call[p].loadedAtStart /\ resp[p] = Value(TRUE)

\* C4: the loaded state is monotonic: once is_loaded is true it stays true,
\* is_model_loaded answers with the current flag (true after the first
\* committed load), and is_loaded is true exactly when a model is present.
C4_LoadedMonotonic ==
    /\ [](/\ is_loaded <=> model # None
          /\ loads >= 1 => is_loaded)
    /\ [][/\ is_loaded => is_loaded'
          /\ \A p \in Procs :
               (pc[p] = "idle" /\ cmd'[p] = "status") =>
                   (resp'[p].success <=> is_loaded')]_vars

C4_Witness ==
    \E p \in Procs :
        /\ pc[p] = "done" /\ cmd[p] = "status" /\ resp[p].success
        /\ \E q \in Procs : q # p /\ pc[q] = "done" /\ cmd[q] \in {"init", "translate"}
                            /\ ~resp[q].success /\ is_loaded

\* task p's ensure_model_loaded returns an error in this step
EmlFails(p) ==
    /\ pc[p] \in EmlPcs
    /\ cmd[p] \in {"init", "translate"}
    /\ pc'[p] = "done"
    /\ ~resp'[p].success

\* C5 as stated: when the download or the native load fails inside
\* ensure_model_loaded, the engine state is left with is_loaded = false and
\* no model.
C5_FailedLoadLeavesUnloaded ==
    [][\A p \in Procs : EmlFails(p) => (~is_loaded' /\ model' = None)]_vars

\* C5 amended: a failing ensure_model_loaded leaves is_loaded and the model
\* as they were before its failing step (unloaded unless another caller's
\* native load had succeeded), and is_loaded becomes true only in the step
\* in which a native load succeeds.
C5_FailedLoadNotCommitted ==
    [][/\ \A p \in Procs : EmlFails(p) => UNCHANGED <<is_loaded, model, loads>>
       /\ (~is_loaded /\ is_loaded') =>
             \E p \in Procs : /\ pc[p] = "eml_loading" /\ Stepped(p)
                              /\ loads' = loads + 1
                              /\ model' # None
                              /\ pc'[p] = "tr_lock" \/ resp'[p] = Value(TRUE)]_vars

C5_Witness ==
    \E p \in Procs :
        /\ pc[p] = "done" /\ cmd[p] = "init" /\ resp[p].kind = "raise"
        /\ call[p].nativeLoads = 1
        /\ ~is_loaded /\ model = None

\* C6: download is idempotent: a call that finds a file at the cache path
\* when it is made returns success at its first step with no network I/O
\* (neither tier) and without touching the file.
C6_DownloadIdempotent ==
    [][\A p \in Procs :
         (pc[p] = "emd_check" /\ call[p].hitAtStart /\ Stepped(p)) =>
            /\ pc'[p] \in {"done", "eml_load"}
            /\ pc'[p] = "done" => resp'[p] = Value(TRUE)
            /\ call'[p].hit
            /\ call'[p].direct = 0 /\ call'[p].hub = 0
            /\ ~call'[p].net /\ ~call'[p].writes
            /\ file' = file]_vars

C6_Witness ==
    \E p \in Procs :
        /\ pc[p] = "done" /\ cmd[p] = "download"
        /\ call[p].hitAtStart /\ call[p].hit /\ resp[p] = Value(TRUE)
        /\ ~call[p].net

\* C7: within one ensure_model_downloaded call the direct download is tried
\* at most once, the hub client at most once and only after the direct
\* download failed, and every failed direct download is followed by the hub
\* attempt before the call returns.
C7_TierOrder ==
    \A p \in Procs :
        /\ call[p].direct <= 1
        /\ call[p].hub <= 1
        /\ call[p].hub = 1 => call[p].directFailed
        /\ pc[p] \in {"hub_new", "hub_get", "hub_copy", "hub_copy_write"}
              => call[p].directFailed /\ call[p].direct = 1
        /\ (call[p].directFailed /\ pc[p] \notin {"hub_new", "aborted"})
              => call[p].hub = 1
        /\ (call[p].direct = 1 /\ ~call[p].directFailed) => call[p].hub = 0

C7_Witness ==
    \E p \in Procs :
        /\ pc[p] = "done" /\ cmd[p] = "download"
        /\ call[p].directFailed /\ call[p].direct = 1 /\ call[p].hub = 1
        /\ resp[p] = Value(TRUE)

\* C8: whenever both download tiers have failed, the call returns an error
\* and the manual-download instructions were emitted before it returned.
C8_InstructionsOnFailure ==
    \A p \in Procs :
        (pc[p] = "done" /\ call[p].directFailed /\ call[p].hubFailed) =>
            /\ ~resp[p].success
            /\ resp[p].error # None
            /\ call[p].instructions

\* C9: the generation loop always ends by an end-of-generation token or by
\* having run max_new_tokens rounds (or by the error return of a round); it
\* never runs more than max_new_tokens rounds, and with max_new_tokens = 0
\* it runs no round and translate returns the empty translation.
C9_LoopEnds ==
    \A p \in Procs :
        /\ sess[p].exit \in {"none", "eog", "exhausted", "error"}
        /\ sess[p].iter <= sess[p].max_new
        /\ (pc[p] = "done" /\ sess[p].ntok = MAX_TOKENS /\ sess[p].exit # "error")
              => /\ sess[p].iter = 0
                 /\ resp[p] = TranslateResponse(TRUE, <<>>, NoErr)

\* C10: a translate request whose direction is neither "en-ja" nor "ja-en"
\* is answered {success: false, no translation, error "Invalid translation
\* direction: ..."} in its first step, without reaching the service: no
\* lock, download, load or tokenizer call, and no change of the engine state
\* or the cache file.
C10_InvalidDirection ==
    [][\A p \in Procs :
         (pc[p] = "idle" /\ cmd'[p] = "translate"
            /\ sess'[p].request \notin {"en-ja", "ja-en"}) =>
            /\ pc'[p] = "done"
            /\ resp'[p].kind = "value" /\ ~resp'[p].success
            /\ resp'[p].translation = None
            /\ resp'[p].error # None
            /\ Head(resp'[p].error[1]) = "Invalid translation direction: "
            /\ call'[p] = NoCall
            /\ ~sess'[p].ctx
            /\ UNCHANGED <<lock, is_loaded, model, loads, file>>]_vars

C10_Witness ==
    \E p \in Procs :
        /\ pc[p] = "done" /\ cmd[p] = "translate" /\ sess[p].request = "fr-en"
        /\ ~resp[p].success
        /\ resp[p].error = Some(<<"Invalid translation direction: ", "fr-en">>)

\* a translate command has answered
Answered(p) == pc[p] = "done" /\ cmd[p] = "translate"

\* the answer is a value of one of the two shapes, never a raise
InBand(r) ==
    /\ r.kind = "value"
    /\ r.success <=> (r.translation # None /\ r.error = None)
    /\ ~r.success <=> (r.error # None /\ r.translation = None)

\* task p's translate returns in this step because the cache file was absent
\* and both download tiers failed
TranslateDownloadFails(p) ==
    /\ cmd[p] = "translate"
    /\ pc[p] \in DownloadPcs
    /\ pc'[p] = "done"
    /\ call'[p].directFailed /\ call'[p].hubFailed

RECURSIVE AllBytes(_)
AllBytes(tokens) ==
    IF tokens = <<>> THEN <<>>
    ELSE TokenBytes(Head(tokens)) \o AllBytes(Tail(tokens))

\* the UTF-8 decoding of a complete byte string: a sequence cut off at the
\* end of the input is malformed and decodes to U+FFFD
Utf8Lossy(bytes) ==
    LET d == Decode(<<>>, bytes) IN
    IF d.pending = <<>> THEN d.out ELSE Append(d.out, Replacement)

\* C13: the text returned by translate is the trimmed UTF-8 decoding of the
\* concatenated bytes of all generated tokens that are not end of
\* generation: no byte of a generated token is dropped. (Stated for the
\* sessions of at most one round, whose only sampling step reads the
\* logits of the prompt.)
C13_DecodesAllBytes ==
    [][\A p \in Procs :
         (/\ pc[p] = "tr_gen" /\ pc'[p] = "done" /\ resp'[p].success
          /\ sess[p].iter <= 1) =>
            resp'[p].translation = Some(Trim(Utf8Lossy(AllBytes(sess[p].gen))))]_vars

\* task p is between the creation of its context and its return
InSession(p) == pc[p] \in {"tr_prefill", "tr_gen"}

\* C14: at most one task works on the engine state at a time: at most one
\* translate call is between context creation and return, no native load
\* runs while a generation session is in progress, and the task that does
\* either holds the lock.
C14_OneAtATime ==
    \A p, q \in Procs :
        /\ (InSession(p) /\ InSession(q)) => p = q
        /\ InSession(p) => pc[q] # "eml_loading"
        /\ (InSession(p) \/ pc[p] = "eml_loading") => lock = p

C14_Witness ==
    \E p, q \in Procs :
        /\ p # q
        /\ pc[p] = "tr_gen" /\ sess[p].gen # <<>>
        /\ pc[q] = "eml_load"

\* C15: when the prompt tokenizes to more than the 512 tokens of the
\* budget, translate answers with an error and no translation; it fails
\* while filling the batch, before any forward pass on the context and
\* without a round of the generation loop.
C15_PromptTooLong ==
    \A p \in Procs :
        sess[p].ntok > MAX_TOKENS =>
            /\ pc[p] \in {"tr_prefill", "done", "aborted"}
            /\ sess[p].decodes = 0
            /\ sess[p].iter = 0
            /\ Answered(p) => /\ ~resp[p].success
                               /\ resp[p].translation = None
                               /\ resp[p].error # None

C15_Witness ==
    \E p \in Procs :
        /\ Answered(p)
        /\ sess[p].ntok = MAX_TOKENS + 1
        /\ sess[p].decodes = 0
        /\ resp[p].error = Some(<<"Translation failed: ", "Insufficient Space">>)

\* task p is in the download that ensure_model_loaded started (line 227)
EmlDownloading(p) ==
    /\ cmd[p] \in {"init", "translate"}
    /\ pc[p] \in {"emd_check"} \cup DownloadPcs

\* C16: the lock is not held while ensure_model_loaded downloads: during
\* the download the task does not own the lock and an is_model_loaded call
\* of the other task can take the lock and return; is_loaded and the model
\* are written only by a task that has taken the lock again.
C16_DownloadUnlocked ==
    /\ [](\A p, q \in Procs :
            (p # q /\ EmlDownloading(p)) =>
                /\ lock # p
                /\ pc[q] = "idle" => ENABLED GetModelStatus(q))
    /\ [][(is_loaded' # is_loaded \/ model' # model) =>
              \E p \in Procs : /\ pc[p] = "eml_loading" /\ lock = p
                               /\ Stepped(p)]_vars

C16_Witness ==
    \E p, q \in Procs :
        /\ p # q
        /\ EmlDownloading(p) /\ call[p].net
        /\ pc[q] = "done" /\ cmd[q] = "status"
        /\ resp[q] = Value(FALSE)
        /\ lock = Free

\* C17: a generation session releases what it owns on every exit path:
\* once a translate call has answered, with a translation or with any
\* error, its context and its decoder are gone and it does not hold the
\* lock; the lock is owned only by a task inside a native load or a
\* session, so when no task is inside one a following call can take it.
C17_ReleasedOnReturn ==
    /\ \A p \in Procs :
          /\ Answered(p) => /\ ~sess[p].ctx
                             /\ sess[p].pending = <<>>
                             /\ lock # p
          /\ lock = p => pc[p] \in {"eml_loading", "tr_prefill", "tr_gen",
                                     "aborted"}
    /\ (\A p \in Procs : pc[p] \in {"idle", "done"}) =>
          /\ lock = Free
          /\ \A q \in Procs : pc[q] = "idle" => ENABLED GetModelStatus(q)

C17_Witness ==
    \E p, q \in Procs :
        /\ Answered(p)
        /\ sess[p].exit = "error" /\ sess[p].decodes >= 2
        /\ resp[p].error = Some(<<"Translation failed: ", "Failed to decode token">>)
        /\ lock = Free
        /\ pc[q] = "idle"

\* C18: within one session the positions submitted to the context are
\* contiguous: the prompt occupies positions 0..ntok-1, the k-th token fed
\* back (k from 0) is submitted at position ntok + k, the position counter
\* n_cur advances by exactly one per token fed back, and no position
\* reaches 512 (hence never the context size).
C18_ContiguousPositions ==
    /\ [](\A p \in Procs :
            pc[p] = "tr_gen" =>
              LET s == sess[p]
                  k == Len(s.gen) - 1
              IN /\ s.n_cur = s.ntok + Len(s.gen)
                 /\ s.batch.last = s.n_cur - 1
                 /\ s.gen = <<>> => /\ s.batch.first = 0
                                    /\ s.batch.n_tokens = s.ntok
                 /\ s.gen # <<>> => /\ s.batch.first = s.ntok + k
                                    /\ s.batch.last = s.ntok + k
                 /\ s.batch.last < MAX_TOKENS
                 /\ s.batch.last < CONTEXT_SIZE)
    /\ [][\A p \in Procs :
              (/\ pc[p] = "tr_gen" /\ pc'[p] = "tr_gen"
               /\ sess'[p].decodes = sess[p].decodes + 1) =>
                 /\ sess'[p].batch.first = sess[p].n_cur
                 /\ sess'[p].batch.last = sess[p].n_cur
                 /\ sess'[p].n_cur = sess[p].n_cur + 1
                 /\ sess[p].n_cur < MAX_TOKENS]_vars

C18_Witness ==
    \E p \in Procs :
        /\ pc[p] = "tr_gen"
        /\ Len(sess[p].gen) = 2
        /\ sess[p].batch.last = MAX_TOKENS - 1
        /\ sess[p].n_cur = MAX_TOKENS

\* C19: at every sampling step the index n_cur - 1 handed to the sampler
\* is the index, in the batch decoded last, of the token that was flagged
\* for logits; in particular it is smaller than that batch's token count.
C19_SampleIndexHasLogits ==
    \A p \in Procs :
        (/\ pc[p] = "tr_gen" /\ sess[p].exit = "none"
         /\ sess[p].iter < sess[p].max_new) =>
            /\ sess[p].n_cur - 1 < sess[p].batch.n_tokens
            /\ HasLogits(sess[p].batch, sess[p].n_cur - 1)

\* task p's ensure_model_downloaded returns Ok in this step
EmdOk(p) ==
    /\ pc[p] \in {"emd_check"} \cup DownloadPcs
    /\ Stepped(p)
    /\ \/ pc'[p] = "eml_load"
       \/ cmd[p] = "download" /\ pc'[p] = "done" /\ resp'[p] = Value(TRUE)

\* C20: under every interleaving of ensure_model_downloaded and
\* ensure_model_loaded callers, ensure_model_downloaded returns success,
\* and a native load of the cache file is started, only when the file holds
\* the completely written artifact.
C20_CompleteBeforeUse ==
    [][\A p \in Procs :
         /\ EmdOk(p) => Complete(file')
         /\ (pc[p] = "eml_load" /\ pc'[p] = "eml_loading") => Complete(file)]_vars

====
